---- MODULE Spec2Model ----
(***************************************************************************)
(* State-machine model of lab_5_scrapper/scrapper.py: Config validation,   *)
(* Crawler.find_articles, HTMLParser (text, meta information, date         *)
(* unification) and main.                                                  *)
(*                                                                         *)
(* Python str values are sequences of one-character strings, so that       *)
(* re.match, str.find, str.replace, slicing and strptime are computed on   *)
(* the characters.  A Cyrillic letter is written as its transliteration    *)
(* and counts as one character.                                            *)
(***************************************************************************)
EXTENDS Integers, Sequences, FiniteSets, TLC

VARIABLES
    pc,          \* position of the run: main / find_articles / parse
    cfg,         \* content of the JSON configuration file (ConfigDTO fields)
    fault,       \* the exception that ended the run, "none" while running
    assets,      \* ASSETS_PATH: "absent", "stale" (exists before the run), "fresh"
    urls,        \* Crawler.urls
    discovered,  \* history: article links in the order they were first extracted
    seed_idx,    \* position of `for seed_url in seed_urls` (1-based)
    n_articles,  \* len(articles), the marked anchors of the page fetched last
    anchor_idx,  \* position of `for article_bs in articles` (1-based)
    url,         \* the local url of find_articles, line 215
    n_requests,  \* number of make_request calls so far
    response,    \* the response of the last make_request: [url, status, raised]
    calls,       \* number of find_articles calls started
    article_idx, \* position of `for i, url in enumerate(crawler.urls, start=1)`
    article_bs,  \* the page HTMLParser.parse fetched last
    article,     \* HTMLParser.article of the parser created last
    sink,        \* history of to_raw / to_meta calls
    date_in,     \* unify_date_format: the raw date string and what it was built from
    date_now,    \* unify_date_format: datetime.datetime.now()
    date_out     \* unify_date_format: the returned datetime, or the fault

vars == <<pc, cfg, fault, assets, urls, discovered, seed_idx, n_articles, anchor_idx, url,
          n_requests, response, calls, article_idx, article_bs, article, sink,
          date_in, date_now, date_out>>

crawlVars == <<urls, discovered, seed_idx, n_articles, anchor_idx, url, calls>>
parseVars == <<article_idx, article_bs, article, sink>>
dateVars  == <<date_in, date_now, date_out>>

(***************************************************************************)
(* Bounds of the model.                                                    *)
(***************************************************************************)
MaxSeeds   == 2   \* longest seed_urls list
MaxAnchors == 2   \* most marked anchors on one listing page
MaxCalls   == 2   \* most find_articles calls on one Crawler

(***************************************************************************)
(* Program constants (core_utils.constants).                               *)
(***************************************************************************)
NUM_ARTICLES_UPPER_LIMIT == 150
TIMEOUT_LOWER_LIMIT == 0
TIMEOUT_UPPER_LIMIT == 60

(***************************************************************************)
(* Strings.                                                                *)
(***************************************************************************)
Digits == <<"0", "1", "2", "3", "4", "5", "6", "7", "8", "9">>

IsDigit(c) == \E i \in 1..10 : Digits[i] = c

DigitVal(c) == (CHOOSE i \in 1..10 : Digits[i] = c) - 1

\* s[i:j] of Python, with 0-based i (inclusive) and j (exclusive), both in range
Slice(s, i, j) == IF j <= i THEN <<>> ELSE SubSeq(s, i + 1, j)

\* s.startswith(prefix)
StartsWith(s, prefix) ==
    /\ Len(s) >= Len(prefix)
    /\ SubSeq(s, 1, Len(prefix)) = prefix

\* s.find(sub): the lowest 0-based index where sub occurs in s, or -1
Find(s, sub) ==
    LET hits == {i \in 0..(Len(s) - Len(sub)) : Slice(s, i, i + Len(sub)) = sub}
    IN  IF hits = {} THEN -1 ELSE CHOOSE i \in hits : \A j \in hits : i <= j

\* sub in s
Contains(s, sub) == Find(s, sub) # -1

\* s.replace(old, new), old non-empty: every occurrence, left to right
RECURSIVE Replace(_, _, _)
Replace(s, old, new) ==
    LET i == Find(s, old)
    IN  IF i = -1 THEN s
        ELSE Slice(s, 0, i) \o new \o Replace(Slice(s, i + Len(old), Len(s)), old, new)

\* str(n) for n >= 0
RECURSIVE IntToStr(_)
IntToStr(n) ==
    IF n < 10 THEN <<Digits[n + 1]>>
    ELSE IntToStr(n \div 10) \o <<Digits[(n % 10) + 1]>>

\* int(s) for a string of digits
RECURSIVE StrToInt(_)
StrToInt(s) ==
    IF s = <<>> THEN 0
    ELSE 10 * StrToInt(SubSeq(s, 1, Len(s) - 1)) + DigitVal(s[Len(s)])

(***************************************************************************)
(* Values of a parsed JSON document, tagged with their Python type.        *)
(***************************************************************************)
PyInt(n)   == [type |-> "int",  num |-> n, str |-> <<>>, items |-> <<>>]
PyBool(b)  == [type |-> "bool", num |-> IF b THEN 1 ELSE 0, str |-> <<>>, items |-> <<>>]
PyStr(s)   == [type |-> "str",  num |-> 0, str |-> s, items |-> <<>>]
PyList(xs) == [type |-> "list", num |-> 0, str |-> <<>>, items |-> xs]
PyDict     == [type |-> "dict", num |-> 0, str |-> <<>>, items |-> <<>>]

\* isinstance(v, int): bool is a subclass of int
IsInt(v)  == v.type \in {"int", "bool"}
IsBool(v) == v.type = "bool"
IsStr(v)  == v.type = "str"
IsList(v) == v.type = "list"
IsDict(v) == v.type = "dict"

(***************************************************************************)
(* Config                                                                  *)
(***************************************************************************)
Http == <<"h", "t", "t", "p">>
SchemeSep == <<":", "/", "/">>

\* re.match(r'https?://.*', url): matched at the start of url
MatchesSeedPattern(u) ==
    \/ StartsWith(u, Http \o SchemeSep)
    \/ StartsWith(u, Http \o <<"s">> \o SchemeSep)

\* lines 100-104: the seed_urls checks raise IncorrectSeedURLError
SeedUrlsFault(c) ==
    \/ ~IsList(c.seed_urls)
    \/ \E i \in 1..Len(c.seed_urls.items) :
          \/ ~IsStr(c.seed_urls.items[i])
          \/ ~MatchesSeedPattern(c.seed_urls.items[i].str)

\* lines 94-121: the exception _validate_config_content raises, "none" if it returns
_validate_config_content(c) ==
    IF SeedUrlsFault(c) THEN "IncorrectSeedURLError"
    ELSE IF IsInt(c.total_articles) /\ c.total_articles.num > NUM_ARTICLES_UPPER_LIMIT
        THEN "NumberOfArticlesOutOfRangeError"
    ELSE IF IsInt(c.total_articles)
            /\ (IsBool(c.total_articles) \/ c.total_articles.num < 1)
        THEN "IncorrectNumberOfArticlesError"
    ELSE IF ~IsInt(c.total_articles) THEN "IncorrectNumberOfArticlesError"
    ELSE IF ~IsDict(c.headers) THEN "IncorrectHeadersError"
    ELSE IF ~IsStr(c.encoding) THEN "IncorrectEncodingError"
    ELSE IF \/ ~IsInt(c.timeout)
            \/ c.timeout.num < TIMEOUT_LOWER_LIMIT
            \/ c.timeout.num > TIMEOUT_UPPER_LIMIT
        THEN "IncorrectTimeoutError"
    ELSE IF ~IsBool(c.should_verify_certificate) \/ ~IsBool(c.headless_mode)
        THEN "IncorrectVerifyError"
    ELSE "none"

get_seed_urls(c) == [i \in 1..Len(c.seed_urls.items) |-> c.seed_urls.items[i].str]

get_num_articles(c) == c.total_articles.num

(***************************************************************************)
(* The configuration files, listing pages and responses the model draws    *)
(* its inputs from.                                                        *)
(***************************************************************************)
Range(s) == {s[i] : i \in 1..Len(s)}

SeqsUpTo(S, n) == UNION {[1..k -> S] : k \in 0..n}

Seed1 == Http \o <<"s">> \o SchemeSep \o <<"a", ".", "r", "u">>
Seed2 == Http \o SchemeSep \o <<"a", ".", "r", "u", "/", "2">>
FtpUrl == <<"f", "t", "p">> \o SchemeSep \o <<"a", ".", "r", "u">>
Utf8 == <<"u", "t", "f", "-", "8">>

SeedElems == {PyStr(Seed1), PyStr(Seed2), PyStr(FtpUrl), PyInt(5)}

SeedUrlsValues == {PyStr(Seed1)} \cup {PyList(xs) : xs \in SeqsUpTo(SeedElems, MaxSeeds)}

TotalArticlesValues ==
    {PyInt(0), PyInt(1), PyInt(2), PyInt(NUM_ARTICLES_UPPER_LIMIT),
     PyInt(NUM_ARTICLES_UPPER_LIMIT + 1), PyBool(TRUE), PyStr(<<"1">>)}

ConfigFiles ==
    [seed_urls : SeedUrlsValues,
     total_articles : TotalArticlesValues,
     headers : {PyDict, PyStr(Utf8)},
     encoding : {PyStr(Utf8), PyInt(8)},
     timeout : {PyInt(5), PyInt(TIMEOUT_LOWER_LIMIT - 1), PyInt(TIMEOUT_UPPER_LIMIT + 1),
                PyStr(<<"5">>)},
     should_verify_certificate : {PyBool(TRUE), PyInt(1)},
     headless_mode : {PyBool(FALSE), PyStr(Utf8)}]

ConfigFaults ==
    {"IncorrectSeedURLError", "NumberOfArticlesOutOfRangeError",
     "IncorrectNumberOfArticlesError", "IncorrectHeadersError",
     "IncorrectEncodingError", "IncorrectTimeoutError", "IncorrectVerifyError"}

\* line 216: the prefix of an article link
ArticlePrefix == <<"h", "t", "t", "p", "s", ":", "/", "/", "a", "m", "u", "r", "m", "e", "d", "i", "a", ".", "r", "u", "/", "n", "e", "w", "s", "/">>
Article1 == ArticlePrefix \o <<"1">>
Article2 == ArticlePrefix \o <<"2">>
OffSite == Http \o <<"s">> \o SchemeSep \o <<"a", ".", "r", "u", "/", "n", "e", "w", "s", "/", "1">>
UrlNotFound == <<"u", "r", "l", " ", "n", "o", "t", " ", "f", "o", "u", "n", "d">>

NoneValue == [type |-> "NoneType", num |-> 0, str |-> <<>>, items |-> <<>>]

\* the href attribute of a marked anchor: a string, or None when it has none
Hrefs == {PyStr(Article1), PyStr(Article2), PyStr(OffSite), NoneValue}

Statuses == {200, 404}

\* what requests.get gives for a listing page: a response with a status and a
\* text with so many marked anchors, or an exception
ListingResponses ==
    [status : Statuses, raised : {FALSE}, n_anchors : 0..MaxAnchors]
    \cup {[status |-> 0, raised |-> TRUE, n_anchors |-> 0]}

(***************************************************************************)
(* make_request, lines 166-177                                             *)
(***************************************************************************)
NoResponse == [url |-> <<>>, status |-> 0, raised |-> FALSE]

\* one more request is made; resp is what requests.get gives for u
make_request(u, resp) ==
    /\ n_requests' = n_requests + 1
    /\ response' = [url |-> u, status |-> resp.status, raised |-> resp.raised]

(***************************************************************************)
(* Crawler                                                                 *)
(***************************************************************************)
\* lines 194-200
_extract_url(href) == IF IsStr(href) THEN href.str ELSE UrlNotFound

get_search_urls(c) == get_seed_urls(c)

\* line 209 with the status test left out
StatusOK_unchecked(resp) == TRUE

\* line 209
StatusOK(resp) == resp.status = 200

\* line 213 with > for >=
TargetReached_late(us, c) == Len(us) > get_num_articles(c)

\* line 213
TargetReached(us, c) == Len(us) >= get_num_articles(c)

\* line 216 without the membership test
Accepts_any(us, u) == StartsWith(u, ArticlePrefix)

\* line 216
Accepts(us, u) == u \notin Range(us) /\ StartsWith(u, ArticlePrefix)

\* the end of the loop body of `for seed_url in seed_urls`
NextSeed ==
    /\ pc' = "seed"
    /\ seed_idx' = seed_idx + 1

\* line 323 (main) or a later call: find_articles starts, line 206
FindArticlesBegin ==
    /\ calls' = calls + 1
    /\ pc' = "seed"
    /\ seed_idx' = 1
    /\ n_articles' = 0
    /\ anchor_idx' = 0
    /\ url' = <<>>
    /\ response' = NoResponse
    /\ UNCHANGED <<cfg, fault, assets, urls, discovered, n_requests>>
    /\ UNCHANGED parseVars
    /\ UNCHANGED dateVars

FindArticlesCall == pc = "ready" /\ FindArticlesBegin

FindArticlesAgain == pc = "returned" /\ calls < MaxCalls /\ FindArticlesBegin

\* lines 207-211: one seed is requested and its page searched for marked anchors
RequestSeed ==
    /\ pc = "seed"
    /\ seed_idx <= Len(get_search_urls(cfg))
    /\ \E resp \in ListingResponses :
          /\ make_request(get_search_urls(cfg)[seed_idx], resp)
          /\ IF resp.raised
             THEN /\ fault' = "RequestException"
                  /\ pc' = "failed"
                  /\ UNCHANGED <<seed_idx, n_articles, anchor_idx>>
             ELSE /\ fault' = fault
                  /\ IF StatusOK(resp)
                     THEN /\ n_articles' = resp.n_anchors
                          /\ IF resp.n_anchors > 0
                             THEN /\ pc' = "anchor"
                                  /\ anchor_idx' = 1
                                  /\ seed_idx' = seed_idx
                             ELSE /\ NextSeed
                                  /\ anchor_idx' = anchor_idx
                     ELSE /\ NextSeed
                          /\ UNCHANGED <<n_articles, anchor_idx>>
    /\ UNCHANGED <<cfg, assets, urls, discovered, url, calls>>
    /\ UNCHANGED parseVars
    /\ UNCHANGED dateVars

\* lines 212-217: one iteration of `for article_bs in articles`; href is the
\* href attribute of the anchor at anchor_idx
ScanAnchor ==
    /\ pc = "anchor"
    /\ IF TargetReached(urls, cfg)
       THEN /\ pc' = "returned"
            /\ UNCHANGED <<urls, discovered, url, seed_idx, anchor_idx>>
       ELSE \E href \in Hrefs :
                /\ url' = _extract_url(href)
                /\ urls' = IF Accepts(urls, url') THEN Append(urls, url') ELSE urls
                /\ discovered' =
                      IF StartsWith(url', ArticlePrefix) /\ url' \notin Range(discovered)
                      THEN Append(discovered, url') ELSE discovered
                /\ IF anchor_idx = n_articles
                   THEN /\ NextSeed
                        /\ anchor_idx' = anchor_idx
                   ELSE /\ anchor_idx' = anchor_idx + 1
                        /\ UNCHANGED <<pc, seed_idx>>
    /\ UNCHANGED <<cfg, fault, assets, n_articles, n_requests, response, calls>>
    /\ UNCHANGED parseVars
    /\ UNCHANGED dateVars

\* line 207: the seeds are exhausted, find_articles returns
FindArticlesReturn ==
    /\ pc = "seed"
    /\ seed_idx > Len(get_search_urls(cfg))
    /\ pc' = "returned"
    /\ UNCHANGED <<cfg, fault, assets, n_requests, response>>
    /\ UNCHANGED crawlVars
    /\ UNCHANGED parseVars
    /\ UNCHANGED dateVars

(***************************************************************************)
(* datetime and datetime.strptime                                          *)
(***************************************************************************)
DateTime(y, mo, d, h, mi) ==
    [kind |-> "datetime", year |-> y, month |-> mo, day |-> d, hour |-> h, minute |-> mi]

\* the call raised ValueError
ValueError ==
    [kind |-> "ValueError", year |-> 0, month |-> 0, day |-> 0, hour |-> 0, minute |-> 0]

NoDate ==
    [kind |-> "none", year |-> 0, month |-> 0, day |-> 0, hour |-> 0, minute |-> 0]

IsLeap(y) == (y % 4 = 0 /\ y % 100 # 0) \/ y % 400 = 0

DaysInMonth(y, mo) ==
    IF mo = 2 THEN (IF IsLeap(y) THEN 29 ELSE 28)
    ELSE IF mo \in {4, 6, 9, 11} THEN 30 ELSE 31

AllDigits(s, i, n) == i + n - 1 <= Len(s) /\ \A j \in i..(i + n - 1) : IsDigit(s[j])

\* the alternatives of a strptime directive at position i of s, in the order
\* the regular expression of _strptime tries them: [val, next]
DirectiveCands(dir, s, i) ==
    LET two == IF AllDigits(s, i, 2)
               THEN <<[val |-> StrToInt(SubSeq(s, i, i + 1)), next |-> i + 2]>>
               ELSE <<>>
        one == IF AllDigits(s, i, 1)
               THEN <<[val |-> DigitVal(s[i]), next |-> i + 1]>>
               ELSE <<>>
        padded == IF i + 1 <= Len(s) /\ s[i] = " " /\ IsDigit(s[i + 1])
                  THEN <<[val |-> DigitVal(s[i + 1]), next |-> i + 2]>>
                  ELSE <<>>
        four == IF AllDigits(s, i, 4)
                THEN <<[val |-> StrToInt(SubSeq(s, i, i + 3)), next |-> i + 4]>>
                ELSE <<>>
    IN  CASE dir = "%d" ->
               \* 3[0-1]|[1-2]\d|0[1-9]|[1-9]| [1-9]
               SelectSeq(two \o one \o padded, LAMBDA c : c.val >= 1 /\ c.val <= 31)
          [] dir = "%m" ->
               \* 1[0-2]|0[1-9]|[1-9]
               SelectSeq(two \o one, LAMBDA c : c.val >= 1 /\ c.val <= 12)
          [] dir = "%Y" ->
               \* \d\d\d\d
               four
          [] dir = "%H" ->
               \* 2[0-3]|[0-1]\d|\d
               SelectSeq(two, LAMBDA c : c.val <= 23) \o one
          [] dir = "%M" ->
               \* [0-5]\d|\d
               SelectSeq(two, LAMBDA c : c.val <= 59) \o one

\* the runs of whitespace \s+ can take at position i, longest first
WhitespaceCands(s, i) ==
    LET n == CHOOSE k \in 0..Len(s) :
                 /\ \A j \in i..(i + k - 1) : j <= Len(s) /\ s[j] = " "
                 /\ (i + k > Len(s) \/ s[i + k] # " ")
    IN  [j \in 1..n |-> [val |-> 0, next |-> i + (n + 1 - j)]]

NoFields == [d \in {"%d", "%m", "%Y", "%H", "%M"} |-> -1]

\* what token tok of a format can take at position i of s, in the order of
\* backtracking
TokenCands(tok, s, i) ==
    IF tok \in DOMAIN NoFields THEN DirectiveCands(tok, s, i)
    ELSE IF tok = " " THEN WhitespaceCands(s, i)
    ELSE IF i <= Len(s) /\ s[i] = tok
         THEN <<[val |-> 0, next |-> i + 1]>>
         ELSE <<>>

\* the match of the regular expression built from the format, from token k of
\* fmt and position i of s: the first match in the order of backtracking
RECURSIVE StrpMatch(_, _, _, _, _)
RECURSIVE StrpFirst(_, _, _, _, _, _)
StrpFirst(fmt, k, s, cands, j, got) ==
    IF j > Len(cands) THEN [ok |-> FALSE, end |-> 0, fields |-> got]
    ELSE LET r == StrpMatch(fmt, k + 1, s, cands[j].next,
                            IF fmt[k] \in DOMAIN NoFields
                            THEN [got EXCEPT ![fmt[k]] = cands[j].val] ELSE got)
         IN  IF r.ok THEN r ELSE StrpFirst(fmt, k, s, cands, j + 1, got)

StrpMatch(fmt, k, s, i, got) ==
    IF k > Len(fmt) THEN [ok |-> TRUE, end |-> i, fields |-> got]
    ELSE StrpFirst(fmt, k, s, TokenCands(fmt[k], s, i), 1, got)

\* datetime.datetime.strptime(s, fmt): the fields that the format lacks default
\* to 1900-01-01 00:00, and the date must exist
strptime(s, fmt) ==
    LET m == StrpMatch(fmt, 1, s, 1, NoFields)
        f(d, default) == IF m.fields[d] = -1 THEN default ELSE m.fields[d]
        y   == f("%Y", 1900)
        mo  == f("%m", 1)
        day == f("%d", 1)
    IN  IF ~m.ok \/ m.end # Len(s) + 1 THEN ValueError
        ELSE IF y < 1 \/ day > DaysInMonth(y, mo) THEN ValueError
        ELSE DateTime(y, mo, day, f("%H", 0), f("%M", 0))

\* re.match(pat, s) for a pattern of \d+, \s and literal characters
RECURSIVE ReMatchFrom(_, _, _, _)
ReMatchFrom(pat, k, s, i) ==
    IF k > Len(pat) THEN TRUE
    ELSE IF pat[k] = "\\d+"
        THEN \E n \in 1..Len(s) : AllDigits(s, i, n) /\ ReMatchFrom(pat, k + 1, s, i + n)
    ELSE IF pat[k] = "\\s"
        THEN i <= Len(s) /\ s[i] = " " /\ ReMatchFrom(pat, k + 1, s, i + 1)
    ELSE i <= Len(s) /\ s[i] = pat[k] /\ ReMatchFrom(pat, k + 1, s, i + 1)

ReMatch(pat, s) == ReMatchFrom(pat, 1, s, 1)

(***************************************************************************)
(* HTMLParser.unify_date_format, lines 264-294                             *)
(***************************************************************************)
\* line 268: '%d %m %Y, %H:%M'
pattern == <<"%d", " ", "%m", " ", "%Y", ",", " ", "%H", ":", "%M">>

\* line 271: '%d.%m.%Y'
dot_pattern == <<"%d", ".", "%m", ".", "%Y">>

\* line 272: r'\d+:\d+'
TimeRegex == <<"\\d+", ":", "\\d+">>

\* line 290: r'\d+\s\d+\s\d+,\s\d+:\d+'
FullRegex == <<"\\d+", "\\s", "\\d+", "\\s", "\\d+", ",", "\\s", "\\d+", ":", "\\d+">>

\* lines 275-286; a capital transliteration stands for one Cyrillic letter
months ==
    <<[name |-> <<"YA", "N", "V", "A", "R", "YA">>,            number |-> <<"0", "1">>],
      [name |-> <<"F", "E", "V", "R", "A", "L", "YA">>,        number |-> <<"0", "2">>],
      [name |-> <<"M", "A", "R", "T", "A">>,                   number |-> <<"0", "3">>],
      [name |-> <<"A", "P", "R", "E", "L", "YA">>,             number |-> <<"0", "4">>],
      [name |-> <<"M", "A", "YA">>,                            number |-> <<"0", "5">>],
      [name |-> <<"I", "YU", "N", "YA">>,                      number |-> <<"0", "6">>],
      [name |-> <<"I", "YU", "L", "YA">>,                      number |-> <<"0", "7">>],
      [name |-> <<"A", "V", "G", "U", "S", "T", "A">>,         number |-> <<"0", "8">>],
      [name |-> <<"S", "E", "N", "T", "YA", "B", "R", "YA">>,  number |-> <<"0", "9">>],
      [name |-> <<"O", "K", "T", "YA", "B", "R", "YA">>,       number |-> <<"1", "0">>],
      [name |-> <<"N", "O", "YA", "B", "R", "YA">>,            number |-> <<"1", "1">>],
      [name |-> <<"D", "E", "K", "A", "B", "R", "YA">>,        number |-> <<"1", "2">>]>>

\* s[:c] and s[c:] of Python for c >= -1
SliceTo(s, c) == IF c < 0 THEN Slice(s, 0, Len(s) + c) ELSE Slice(s, 0, c)
SliceFrom(s, c) ==
    IF c < 0 THEN Slice(s, (IF Len(s) + c < 0 THEN 0 ELSE Len(s) + c), Len(s))
    ELSE Slice(s, c, Len(s))

\* lines 292-293: the year of today is put in front of the comma
InjectYear(date_str, today) ==
    LET c == Find(date_str, <<",">>)
    IN  SliceTo(date_str, c) \o <<" ">> \o IntToStr(today.year) \o SliceFrom(date_str, c)

\* lines 287-294: the loop over months.items() from entry k on
RECURSIVE MonthLoop(_, _, _)
MonthLoop(k, date_str, today) ==
    IF k > Len(months) THEN strptime(date_str, pattern)
    ELSE IF Contains(date_str, months[k].name)
        THEN LET replaced == Replace(date_str, months[k].name, months[k].number)
             IN  IF ReMatch(FullRegex, replaced)
                 THEN strptime(replaced, pattern)
                 ELSE MonthLoop(k + 1, InjectYear(replaced, today), today)
    ELSE MonthLoop(k + 1, date_str, today)

unify_date_format(date_str, today) ==
    IF Contains(date_str, <<".">>) THEN strptime(date_str, dot_pattern)
    ELSE IF ReMatch(TimeRegex, date_str)
        THEN strptime(IntToStr(today.day) \o <<" ">> \o IntToStr(today.month) \o <<" ">>
                      \o IntToStr(today.year) \o <<",", " ">> \o date_str, pattern)
    ELSE MonthLoop(1, date_str, today)

(***************************************************************************)
(* The raw date strings of the site and the clock readings.                *)
(***************************************************************************)
Pad2(n) == IF n < 10 THEN <<"0">> \o IntToStr(n) ELSE IntToStr(n)

RenderTime(h, mi) == Pad2(h) \o <<":">> \o Pad2(mi)

\* the raw string of a shape: "dot" DD.MM.YYYY, "time" HH:MM,
\* "full" D month Y, HH:MM, "noyear" D month, HH:MM, "notime" D month
RenderDate(shape, d, mo, y, h, mi) ==
    CASE shape = "dot" -> Pad2(d) \o <<".">> \o Pad2(mo) \o <<".">> \o IntToStr(y)
      [] shape = "time" -> RenderTime(h, mi)
      [] shape = "full" -> IntToStr(d) \o <<" ">> \o months[mo].name \o <<" ">>
                           \o IntToStr(y) \o <<",", " ">> \o RenderTime(h, mi)
      [] shape = "noyear" -> IntToStr(d) \o <<" ">> \o months[mo].name
                             \o <<",", " ">> \o RenderTime(h, mi)
      [] shape = "notime" -> IntToStr(d) \o <<" ">> \o months[mo].name

DateShapes == {"dot", "time", "full", "noyear", "notime"}
Days == {1, 9, 10, 28, 29, 30, 31}
Years == {2023, 2024}
Times == {<<0, 0>>, <<9, 5>>, <<14, 30>>, <<23, 59>>}

DateInputs ==
    {[shape |-> sh, day |-> d, month |-> mo, year |-> y, hour |-> t[1], minute |-> t[2],
      raw |-> RenderDate(sh, d, mo, y, t[1], t[2])] :
        sh \in DateShapes, d \in Days, mo \in 1..12, y \in Years, t \in Times}

Todays == {DateTime(2024, 6, 1, 12, 0), DateTime(2023, 2, 28, 23, 59),
           DateTime(2024, 12, 31, 0, 0)}

UnifyDateFormat ==
    /\ pc = "date"
    /\ pc' = "date_done"
    /\ date_out' = unify_date_format(date_in.raw, date_now)
    /\ UNCHANGED <<cfg, fault, assets, n_requests, response, date_in, date_now>>
    /\ UNCHANGED crawlVars
    /\ UNCHANGED parseVars

(***************************************************************************)
(* HTMLParser                                                              *)
(***************************************************************************)
NotFound == <<"N", "O", "T", " ", "F", "O", "U", "N", "D">>
Newline == "\n"

\* Article(url, article_id), line 238
NewArticle(u, id) ==
    [type |-> "Article", url |-> u, article_id |-> id, text |-> <<>>, title |-> <<>>,
     author |-> <<>>, topics |-> <<>>, date |-> NoDate]

NoArticle ==
    [type |-> "NoneType", url |-> <<>>, article_id |-> 0, text |-> <<>>, title |-> <<>>,
     author |-> <<>>, topics |-> <<>>, date |-> NoDate]

\* what the parser looks for in an article page: the content block and its
\* paragraphs, the title, the text of the Author meta element, the rubric
\* anchor and the two places of the date; NoneValue where find returns None
FullPage ==
    [type |-> "page",
     has_body |-> TRUE,
     paragraphs |-> <<<<"a">>, <<"b">>, <<"c">>>>,
     title |-> PyStr(<<"T">>),
     author |-> PyStr(<<"I", "v", "a", "n">>),
     topic |-> PyStr(<<"R">>),
     date_div |-> PyStr(<<" ", "1", "5", ".", "0", "3", ".", "2", "0", "2", "4", " ">>),
     date_p |-> NoneValue]

EmptyPage ==
    [type |-> "page", has_body |-> FALSE, paragraphs |-> <<>>, title |-> NoneValue,
     author |-> NoneValue, topic |-> NoneValue, date_div |-> NoneValue, date_p |-> NoneValue]

NoPage == [EmptyPage EXCEPT !.type = "NoneType"]

ArticlePages ==
    {FullPage, EmptyPage,
     [FullPage EXCEPT !.author = PyStr(<<>>)],
     [FullPage EXCEPT !.author = NoneValue],
     [FullPage EXCEPT !.has_body = FALSE, !.paragraphs = <<>>],
     [FullPage EXCEPT !.paragraphs = <<>>],
     [FullPage EXCEPT !.paragraphs = <<<<"a">>>>],
     [FullPage EXCEPT !.title = NoneValue],
     [FullPage EXCEPT !.topic = NoneValue],
     [FullPage EXCEPT !.date_div = NoneValue,
                      !.date_p = PyStr(<<"1", "0", " ">> \o months[3].name
                                       \o <<",", " ", "1", "4", ":", "3", "0">>)],
     [FullPage EXCEPT !.date_div = PyStr(<<"1", "4", ":", "3", "0">>)],
     [FullPage EXCEPT !.date_div = PyStr(<<"V", "CH", "E", "R", "A">>)],
     [FullPage EXCEPT !.date_div = NoneValue]}

\* what requests.get gives for an article page
ArticleResponses ==
    [status : Statuses, raised : {FALSE}, page : ArticlePages]
    \cup {[status |-> 0, raised |-> TRUE, page |-> NoPage]}

\* str.strip()
RECURSIVE Strip(_)
Strip(s) ==
    IF s = <<>> THEN s
    ELSE IF Head(s) \in {" ", Newline} THEN Strip(Tail(s))
    ELSE IF s[Len(s)] \in {" ", Newline} THEN Strip(SubSeq(s, 1, Len(s) - 1))
    ELSE s

\* line 245-246: the text of the paragraphs, each followed by a line break
RECURSIVE JoinLines(_)
JoinLines(ps) ==
    IF ps = <<>> THEN <<>> ELSE Head(ps) \o <<Newline>> \o JoinLines(Tail(ps))

\* lines 240-246
_fill_article_with_text(page, art) ==
    IF ~page.has_body THEN [article |-> art, fault |-> "AttributeError"]
    ELSE [article |-> [art EXCEPT !.text = art.text
                          \o JoinLines(SubSeq(page.paragraphs, 1, Len(page.paragraphs) - 1))],
          fault |-> "none"]

\* lines 254-257 with the two branches exchanged
AuthorOf_swapped(text) == IF text # <<>> THEN <<NotFound>> ELSE <<text>>

\* lines 254-257
AuthorOf(text) == IF text = <<>> THEN <<NotFound>> ELSE <<text>>

\* lines 248-262; a find that returned None faults where its .text is read
_fill_article_with_meta_information(page, art, today) ==
    IF page.title = NoneValue THEN [article |-> art, fault |-> "AttributeError"]
    ELSE LET a1 == [art EXCEPT !.title = page.title.str]
    IN  IF page.author = NoneValue THEN [article |-> a1, fault |-> "AttributeError"]
    ELSE LET a2 == [a1 EXCEPT !.author = AuthorOf(page.author.str)]
    IN  IF page.topic = NoneValue THEN [article |-> a2, fault |-> "AttributeError"]
    ELSE LET a3 == [a2 EXCEPT !.topics = Append(a2.topics, page.topic.str)]
             date == IF page.date_div = NoneValue THEN page.date_p ELSE page.date_div
    IN  IF date = NoneValue THEN [article |-> a3, fault |-> "AttributeError"]
    ELSE LET dt == unify_date_format(Strip(date.str), today)
    IN  IF dt.kind = "ValueError" THEN [article |-> a3, fault |-> "ValueError"]
        ELSE [article |-> [a3 EXCEPT !.date = dt], fault |-> "none"]

\* lines 301-304: the page is parsed whatever the status of the response
parse(page, art, today) ==
    LET t == _fill_article_with_text(page, art)
    IN  IF t.fault # "none" THEN t
        ELSE _fill_article_with_meta_information(page, t.article, today)

(***************************************************************************)
(* main, lines 316-329                                                     *)
(***************************************************************************)
\* line 320 after line 321: the directory is prepared before the configuration
\* is validated
ConfigInit_prepared_first ==
    /\ pc = "start"
    /\ assets' = "fresh"
    /\ fault' = _validate_config_content(cfg)
    /\ pc' = IF fault' = "none" THEN "prepared" ELSE "failed"
    /\ UNCHANGED <<cfg, n_requests, response>>
    /\ UNCHANGED crawlVars
    /\ UNCHANGED parseVars
    /\ UNCHANGED dateVars

\* line 320: Config.__init__, lines 75-84
ConfigInit ==
    /\ pc = "start"
    /\ fault' = _validate_config_content(cfg)
    /\ pc' = IF fault' = "none" THEN "configured" ELSE "failed"
    /\ UNCHANGED <<cfg, assets, n_requests, response>>
    /\ UNCHANGED crawlVars
    /\ UNCHANGED parseVars
    /\ UNCHANGED dateVars

\* line 321: prepare_environment, lines 307-313
PrepareEnvironment ==
    /\ pc = "configured"
    /\ assets' = "fresh"
    /\ pc' = "prepared"
    /\ UNCHANGED <<cfg, fault, n_requests, response>>
    /\ UNCHANGED crawlVars
    /\ UNCHANGED parseVars
    /\ UNCHANGED dateVars

\* line 322: Crawler.__init__, lines 191-192
CrawlerInit ==
    /\ pc = "prepared"
    /\ urls' = <<>>
    /\ pc' = "ready"
    /\ UNCHANGED <<cfg, fault, assets, n_requests, response, discovered, seed_idx,
                   n_articles, anchor_idx, url, calls>>
    /\ UNCHANGED parseVars
    /\ UNCHANGED dateVars

\* line 324: the loop over crawler.urls starts
EnterLoop ==
    /\ pc = "returned"
    /\ pc' = "parse"
    /\ article_idx' = 1
    /\ UNCHANGED <<cfg, fault, assets, n_requests, response, article_bs, article, sink>>
    /\ UNCHANGED crawlVars
    /\ UNCHANGED dateVars

\* lines 325-326: HTMLParser(...) and parser.parse()
ParseArticle ==
    /\ pc = "parse"
    /\ article_idx <= Len(urls)
    /\ \E resp \in ArticleResponses, today \in Todays :
          /\ make_request(urls[article_idx], resp)
          /\ IF resp.raised
             THEN /\ fault' = "RequestException"
                  /\ pc' = "failed"
                  /\ article' = NewArticle(urls[article_idx], article_idx)
                  /\ article_bs' = NoPage
             ELSE LET r == parse(resp.page, NewArticle(urls[article_idx], article_idx), today)
                  IN  /\ article' = r.article
                      /\ article_bs' = resp.page
                      /\ fault' = r.fault
                      /\ pc' = IF r.fault = "none" THEN "write" ELSE "failed"
    /\ UNCHANGED <<cfg, assets, article_idx, sink>>
    /\ UNCHANGED crawlVars
    /\ UNCHANGED dateVars

\* lines 327-329: the parsed article goes to to_raw and to_meta
WriteArticle ==
    /\ pc = "write"
    /\ sink' = IF article.type = "Article"
               THEN sink \o <<[op |-> "to_raw", id |-> article.article_id],
                              [op |-> "to_meta", id |-> article.article_id]>>
               ELSE sink
    /\ article_idx' = article_idx + 1
    /\ article' = NoArticle
    /\ article_bs' = NoPage
    /\ pc' = "parse"
    /\ UNCHANGED <<cfg, fault, assets, n_requests, response>>
    /\ UNCHANGED crawlVars
    /\ UNCHANGED dateVars

\* line 324: crawler.urls is exhausted, main returns
MainReturn ==
    /\ pc = "parse"
    /\ article_idx > Len(urls)
    /\ pc' = "done"
    /\ UNCHANGED <<cfg, fault, assets, n_requests, response>>
    /\ UNCHANGED crawlVars
    /\ UNCHANGED parseVars
    /\ UNCHANGED dateVars

(***************************************************************************)
(* Specifications                                                          *)
(***************************************************************************)
\* what no specification has touched yet
Untouched ==
    /\ fault = "none"
    /\ urls = <<>>
    /\ discovered = <<>>
    /\ seed_idx = 0
    /\ n_articles = 0
    /\ anchor_idx = 0
    /\ url = <<>>
    /\ n_requests = 0
    /\ response = NoResponse
    /\ calls = 0
    /\ article_idx = 0
    /\ article_bs = NoPage
    /\ article = NoArticle
    /\ sink = <<>>

\* a run of main: any configuration file, the assets directory there or not
Init ==
    /\ cfg \in ConfigFiles
    /\ pc = "start"
    /\ assets \in {"absent", "stale"}
    /\ Untouched
    /\ date_in = NoneValue
    /\ date_now = NoDate
    /\ date_out = NoDate

Next ==
    \/ ConfigInit
    \/ PrepareEnvironment
    \/ CrawlerInit
    \/ FindArticlesCall
    \/ RequestSeed
    \/ ScanAnchor
    \/ FindArticlesReturn
    \/ EnterLoop
    \/ ParseArticle
    \/ WriteArticle
    \/ MainReturn

Spec == Init /\ [][Next]_vars

\* a Crawler of a valid configuration, right after Crawler.__init__
InitCrawler ==
    /\ cfg \in {c \in ConfigFiles : _validate_config_content(c) = "none"}
    /\ pc = "ready"
    /\ assets = "fresh"
    /\ Untouched
    /\ date_in = NoneValue
    /\ date_now = NoDate
    /\ date_out = NoDate

NextCrawler ==
    \/ FindArticlesCall
    \/ FindArticlesAgain
    \/ RequestSeed
    \/ ScanAnchor
    \/ FindArticlesReturn

SpecCrawler == InitCrawler /\ [][NextCrawler]_vars

\* one call of unify_date_format on a raw date string of the site
InitDate ==
    /\ date_in \in DateInputs
    /\ date_now \in Todays
    /\ date_out = NoDate
    /\ pc = "date"
    /\ cfg = NoneValue
    /\ assets = "absent"
    /\ Untouched

NextDate == UnifyDateFormat

SpecDate == InitDate /\ [][NextDate]_vars

(***************************************************************************)
(* Properties of Crawler.find_articles, checked under SpecCrawler.         *)
(***************************************************************************)
NoDuplicates(s) == \A i, j \in 1..Len(s) : s[i] = s[j] => i = j

\* C3: Crawler.urls never holds a URL twice, and its order is the order in
\* which the article links were first extracted, whatever the listing pages
\* and however often find_articles is called.
C3_UrlsUniqueInDiscoveryOrder ==
    /\ NoDuplicates(urls)
    /\ urls = discovered

\* in a second call the link extracted last was stored before the last one
\* of urls: it came again and was not stored again
C3_Witness ==
    /\ calls = 2
    /\ pc = "seed"
    /\ url = Article2
    /\ urls = <<Article2, Article1>>

\* C4: the number of URLs in Crawler.urls never exceeds get_num_articles().
C4_NeverAboveTarget == Len(urls) <= get_num_articles(cfg)

\* find_articles returned from inside the anchor loop with the target met
C4_Witness ==
    /\ pc = "returned"
    /\ seed_idx <= Len(get_search_urls(cfg))
    /\ Len(urls) = get_num_articles(cfg)
    /\ Len(urls) = 2

IsListingRequest == pc = "seed" /\ n_requests' # n_requests

\* C6: a listing page answered with a status other than 200 adds no URL,
\* raises nothing, leaves urls as it was and moves the loop on to the next seed.
C6_Non200ListingSkipped ==
    [][(/\ IsListingRequest
        /\ ~response'.raised
        /\ response'.status # 200)
       => /\ urls' = urls
          /\ n_articles' = n_articles
          /\ anchor_idx' = anchor_idx
          /\ fault' = "none"
          /\ pc' = "seed"
          /\ seed_idx' = seed_idx + 1]_vars

\* the first seed answered 404: nothing is stored, nothing raised, and the
\* loop stands at the second seed
C6_Witness ==
    /\ pc = "seed"
    /\ seed_idx = 2
    /\ seed_idx <= Len(get_search_urls(cfg))
    /\ n_requests = 1
    /\ response.status = 404
    /\ ~response.raised
    /\ fault = "none"
    /\ urls = <<>>

\* C10: in the first find_articles call, once the number of discovered URLs
\* has reached the target no further listing page is requested.
C10_NoListingRequestAfterTarget ==
    [][(/\ calls = 1
        /\ pc \in {"seed", "anchor"}
        /\ Len(urls) >= get_num_articles(cfg))
       => n_requests' = n_requests]_vars

(***************************************************************************)
(* Properties of Config and main, checked under Spec.                      *)
(***************************************************************************)
\* seed_urls as the specification wants it: a non-empty list of strings that
\* start with http:// or https://
WellFormedSeedUrls(c) ==
    /\ IsList(c.seed_urls)
    /\ c.seed_urls.items # <<>>
    /\ \A i \in 1..Len(c.seed_urls.items) :
          /\ IsStr(c.seed_urls.items[i])
          /\ MatchesSeedPattern(c.seed_urls.items[i].str)

\* C1: with well-formed seed_urls, a total_articles that is an integer (not a
\* boolean) below 1 or above NUM_ARTICLES_UPPER_LIMIT makes Config fail with
\* NumberOfArticlesOutOfRangeError.
C1_OutOfRangeFault ==
    (/\ pc # "start"
     /\ WellFormedSeedUrls(cfg)
     /\ cfg.total_articles.type = "int"
     /\ (cfg.total_articles.num < 1 \/ cfg.total_articles.num > NUM_ARTICLES_UPPER_LIMIT))
    => fault = "NumberOfArticlesOutOfRangeError"

\* C2: a seed_urls that is not a non-empty list of strings matching
\* ^https?:// makes Config fail with IncorrectSeedURLError.
C2_SeedUrlFault ==
    (pc # "start" /\ ~WellFormedSeedUrls(cfg)) => fault = "IncorrectSeedURLError"

\* the parser holds the page of a response with a status other than 200
Non200ArticleFetched ==
    /\ article_bs.type = "page"
    /\ ~response.raised
    /\ response.status # 200

\* C5: an article page answered with a status other than 200 is skipped: it
\* raises no fault and its article is not on the way to to_raw and to_meta.
C5_Non200ArticleSkipped ==
    Non200ArticleFetched => fault = "none" /\ pc # "write"

\* C8: a configuration that fails validation ends the run with its fault
\* while no request has been made and the assets directory is as it was.
C8_ConfigFaultBeforeAnyEffect ==
    /\ (pc # "start" /\ _validate_config_content(cfg) # "none")
          => fault = _validate_config_content(cfg)
    /\ fault \in ConfigFaults
          => /\ pc = "failed"
             /\ n_requests = 0
             /\ assets # "fresh"
             /\ sink = <<>>

\* the last of the checks failed, on a directory that was there
C8_Witness ==
    /\ fault = "IncorrectVerifyError"
    /\ pc = "failed"
    /\ assets = "stale"

\* the parse of the current page got as far as the Author meta element and
\* found it
AuthorMetaRead ==
    /\ article_bs.type = "page"
    /\ article_bs.has_body
    /\ article_bs.title # NoneValue
    /\ article_bs.author # NoneValue

YearOf(in, now) == IF in.shape \in {"dot", "full"} THEN in.year ELSE now.year

\* the raw string names a day that exists
NamesADay(in, now) ==
    in.shape = "time" \/ in.day <= DaysInMonth(YearOf(in, now), in.month)

\* C7: unify_date_format returns the timestamp of the raw string: DD.MM.YYYY
\* at 00:00; HH:MM on the day of the clock; D month Y, HH:MM as written;
\* D month[, HH:MM] in the year of the clock, at HH:MM when a time is there.
C7_DateAsSpecified ==
    (pc = "date_done" /\ NamesADay(date_in, date_now))
    => /\ date_out.kind = "datetime"
       /\ date_out.year = YearOf(date_in, date_now)
       /\ date_out.month = IF date_in.shape = "time" THEN date_now.month ELSE date_in.month
       /\ date_out.day = IF date_in.shape = "time" THEN date_now.day ELSE date_in.day
       /\ date_in.shape \in {"time", "full", "noyear"}
             => date_out.hour = date_in.hour /\ date_out.minute = date_in.minute
       /\ date_in.shape = "dot" => date_out.hour = 0 /\ date_out.minute = 0

====
